---- MODULE Spec2Model ----
(***************************************************************************)
(* Live polling backend: the session state of src/server.js (polls,        *)
(* history, roster, chat, ejected set, countdown timers, sockets) and its  *)
(* HTTP and socket handlers, one action per handler.                       *)
(*                                                                         *)
(* Texts that the code trims (question, option) are sequences of           *)
(* one-character strings, so that trim() is computed and not assumed.      *)
(* Identifiers and names are strings; "" stands for a missing (falsy)      *)
(* value.  A value that may be undefined is a sequence of length 0 or 1.   *)
(* Wall-clock fields (createdAt, startTime, endTime, joinedAt, timestamp)  *)
(* are not modelled.  A handler's HTTP status and the events it publishes  *)
(* are functions of the state it runs in and of its request.  chatIds      *)
(* counts the ids uuidv4() has issued to chat messages: message k of the   *)
(* session carries id k.                                                   *)
(*                                                                         *)
(* src/api/index.js is a second process with the same HTTP handlers; its   *)
(* state is the record api, which the handlers of src/server.js leave      *)
(* alone.                                                                  *)
(***************************************************************************)
EXTENDS Integers, Sequences, FiniteSets, TLC

VARIABLES polls, currentPoll, pollHistory, activeParticipants, chatMessages,
          kickedOutStudents, timers, sockets, chatIds, api

vars == <<polls, currentPoll, pollHistory, activeParticipants, chatMessages,
          kickedOutStudents, timers, sockets, chatIds>>

(***************************************************************************)
(* Bounds of the model.                                                    *)
(***************************************************************************)
MaxPolls == 2
MaxStarts == 2
MaxSockets == 2
MaxMessages == 105

(***************************************************************************)
(* Program constants.                                                      *)
(***************************************************************************)
MinDuration == 10
MaxDuration == 300
MaxChat == 100

PollIds == 1..MaxPolls

(***************************************************************************)
(* Texts.                                                                  *)
(***************************************************************************)
A == <<"A">>
B == <<"B">>
Z == <<"Z">>
Q == <<"Q">>
SP == <<" ">>
Blank == << >>

RECURSIVE TrimStart(_)
TrimStart(s) == IF s # << >> /\ Head(s) = " " THEN TrimStart(Tail(s)) ELSE s

RECURSIVE TrimEnd(_)
TrimEnd(s) ==
  IF s # << >> /\ s[Len(s)] = " " THEN TrimEnd(SubSeq(s, 1, Len(s) - 1)) ELSE s

Trim(s) == TrimEnd(TrimStart(s))

Max(a, b) == IF a >= b THEN a ELSE b
Min(a, b) == IF a <= b THEN a ELSE b

Undefined == << >>
Some(x) == <<x>>
EmptyObject == << >>

NonEmptyText(s) == Len(s) > 0

\* options.map(opt => opt.trim()).filter(opt => opt.length > 0)
StoredOptions(options) ==
  SelectSeq([i \in 1..Len(options) |-> Trim(options[i])], NonEmptyText)

\* mutant of ClampDuration: the upper limit is missing
ClampDurationNoCeiling(duration) == Max(duration, MinDuration)

\* Math.min(Math.max(duration, 10), 300)
ClampDuration(duration) == Min(Max(duration, MinDuration), MaxDuration)

\* Math.max(0, Math.min(correctAnswer, options.length - 1)), on the request's list
ClampCorrectAnswer(correctAnswer, options) ==
  Max(0, Min(correctAnswer, Len(options) - 1))

\* poll.options[index], zero-based; undefined out of range
OptionAt(options, index) ==
  IF index + 1 \in 1..Len(options) THEN Some(options[index + 1]) ELSE Undefined

OptionSet(options) == {options[i] : i \in 1..Len(options)}

(***************************************************************************)
(* Maps (JavaScript Map): entries in insertion order.                      *)
(***************************************************************************)
MapHas(map, key) == \E i \in 1..Len(map) : map[i].id = key

\* Map.set: an existing key keeps its position, a new key goes last
MapSet(map, key, value) ==
  IF MapHas(map, key)
  THEN [i \in 1..Len(map) |-> IF map[i].id = key THEN value ELSE map[i]]
  ELSE Append(map, value)

\* Map.delete
MapDelete(map, key) ==
  LET Keep(entry) == entry.id # key IN SelectSeq(map, Keep)

(***************************************************************************)
(* Replies.                                                                *)
(***************************************************************************)
Reply(status, error) == [status |-> status, error |-> error]

\* socket.emit (to one socket) and io.emit (to "all")
Event(name, to, data) == [name |-> name, to |-> to, data |-> data]

(***************************************************************************)
(* POST /api/poll/create                                                   *)
(***************************************************************************)
CreateReply(question, options, teacherId, teacherName) ==
  IF question = Blank \/ Len(options) < 2
  THEN Reply(400, "Question and at least 2 options are required")
  ELSE IF teacherId = "" \/ teacherName = ""
  THEN Reply(400, "Teacher ID and name are required")
  ELSE IF currentPoll # 0 /\ polls[currentPoll].isActive
  THEN Reply(409, "There is already an active poll")
  ELSE Reply(201, "")

NewPoll(id, question, options, duration, teacherId, teacherName, correctAnswer) ==
  [id |-> id,
   question |-> Trim(question),
   options |-> StoredOptions(options),
   duration |-> ClampDuration(duration),
   correctAnswer |-> ClampCorrectAnswer(correctAnswer, options),
   isActive |-> FALSE,
   responses |-> EmptyObject,
   results |-> EmptyObject,
   timeLeft |-> duration,
   teacherId |-> teacherId,
   teacherName |-> teacherName,
   finalResults |-> Undefined,
   summary |-> Undefined]

CreatePoll(question, options, duration, teacherId, teacherName, correctAnswer) ==
  LET reply == CreateReply(question, options, teacherId, teacherName)
      pollId == Len(polls) + 1
  IN /\ reply.status = 201 => Len(polls) < MaxPolls
     /\ IF reply.status = 201
        THEN /\ polls' = Append(polls, NewPoll(pollId, question, options, duration,
                                               teacherId, teacherName, correctAnswer))
             /\ currentPoll' = pollId
             /\ UNCHANGED <<pollHistory, activeParticipants, chatMessages, chatIds,
                            kickedOutStudents, timers, sockets>>
        ELSE UNCHANGED vars

(***************************************************************************)
(* POST /api/poll/:pollId/start                                            *)
(***************************************************************************)
PollExists(pollId) == pollId \in 1..Len(polls)

\* mutant of StartReply: the active check comes before the creator check
StartReplyActiveFirst(pollId, teacherId) ==
  IF ~PollExists(pollId) THEN Reply(404, "Poll not found")
  ELSE IF polls[pollId].isActive THEN Reply(409, "Poll is already active")
  ELSE IF polls[pollId].teacherId # teacherId
  THEN Reply(403, "Only the poll creator can start this poll")
  ELSE Reply(200, "")

\* variant: a poll that is Active is started again
StartReplyNoActiveCheck(pollId, teacherId) ==
  IF ~PollExists(pollId) THEN Reply(404, "Poll not found")
  ELSE IF polls[pollId].teacherId # teacherId
  THEN Reply(403, "Only the poll creator can start this poll")
  ELSE Reply(200, "")

StartReply(pollId, teacherId) ==
  IF ~PollExists(pollId) THEN Reply(404, "Poll not found")
  ELSE IF polls[pollId].teacherId # teacherId
  THEN Reply(403, "Only the poll creator can start this poll")
  ELSE IF polls[pollId].isActive THEN Reply(409, "Poll is already active")
  ELSE Reply(200, "")

ZeroTally == [count |-> 0, participants |-> << >>]

\* poll.options.forEach(option => poll.results[option] = {count: 0, participants: []})
ZeroResults(options) == [o \in OptionSet(options) |-> ZeroTally]

\* mutant of StartedPoll: the responses of an earlier run are kept
StartedPollResponsesKept(poll) ==
  [poll EXCEPT !.isActive = TRUE,
               !.timeLeft = poll.duration,
               !.results = ZeroResults(poll.options)]

StartedPoll(poll) ==
  [poll EXCEPT !.isActive = TRUE,
               !.timeLeft = poll.duration,
               !.responses = EmptyObject,
               !.results = ZeroResults(poll.options)]

RECURSIVE SumTimers(_)
SumTimers(n) == IF n = 0 THEN 0 ELSE timers[n] + SumTimers(n - 1)

\* every successful start adds a timer, every expiry moves one to the history
NumStarts == Len(pollHistory) + SumTimers(MaxPolls)

\* the events the start handler publishes
StartEvents(pollId, teacherId) ==
  IF StartReply(pollId, teacherId).status = 200
  THEN <<Event("pollStarted", "all",
               [poll |-> StartedPoll(polls[pollId]),
                participants |-> activeParticipants])>>
  ELSE << >>

StartPoll(pollId, teacherId) ==
  LET reply == StartReply(pollId, teacherId)
  IN /\ reply.status = 200 => NumStarts < MaxStarts
     /\ IF reply.status = 200
        THEN /\ polls' = [polls EXCEPT ![pollId] = StartedPoll(@)]
             /\ chatMessages' = << >>
             /\ timers' = [timers EXCEPT ![pollId] = @ + 1]
             /\ UNCHANGED <<currentPoll, pollHistory, activeParticipants,
                            kickedOutStudents, sockets, chatIds>>
        ELSE UNCHANGED vars

(***************************************************************************)
(* POST /api/poll/:pollId/response                                         *)
(***************************************************************************)
\* mutant of ResponseReply: the check for an earlier response is missing
ResponseReplyNoDuplicateCheck(pollId, studentId, selectedOption) ==
  IF studentId \in kickedOutStudents
  THEN Reply(403, "You have been removed from this session")
  ELSE IF ~(pollId \in 1..Len(polls)) THEN Reply(404, "Poll not found")
  ELSE IF ~polls[pollId].isActive THEN Reply(400, "Poll is not currently active")
  ELSE IF selectedOption \notin OptionSet(polls[pollId].options)
  THEN Reply(400, "Invalid option selected")
  ELSE Reply(200, "")

\* mutant of ResponseReply: the poll is looked up before the kicked-out check
ResponseReplyPollFirst(pollId, studentId, selectedOption) ==
  IF ~(pollId \in 1..Len(polls)) THEN Reply(404, "Poll not found")
  ELSE IF studentId \in kickedOutStudents
  THEN Reply(403, "You have been removed from this session")
  ELSE IF ~polls[pollId].isActive THEN Reply(400, "Poll is not currently active")
  ELSE IF selectedOption \notin OptionSet(polls[pollId].options)
  THEN Reply(400, "Invalid option selected")
  ELSE IF studentId \in DOMAIN polls[pollId].responses
  THEN Reply(409, "You have already responded to this poll")
  ELSE Reply(200, "")

ResponseReply(pollId, studentId, selectedOption) ==
  IF studentId \in kickedOutStudents
  THEN Reply(403, "You have been removed from this session")
  ELSE IF ~PollExists(pollId) THEN Reply(404, "Poll not found")
  ELSE IF ~polls[pollId].isActive THEN Reply(400, "Poll is not currently active")
  ELSE IF selectedOption \notin OptionSet(polls[pollId].options)
  THEN Reply(400, "Invalid option selected")
  ELSE IF studentId \in DOMAIN polls[pollId].responses
  THEN Reply(409, "You have already responded to this poll")
  ELSE Reply(200, "")

\* poll.results[selectedOption], created with a zero tally when absent
TallyOf(poll, option) ==
  IF option \in DOMAIN poll.results THEN poll.results[option] ELSE ZeroTally

RecordedResponse(poll, studentId, studentName, selectedOption) ==
  [studentId |-> studentId,
   studentName |-> studentName,
   selectedOption |-> selectedOption,
   isCorrect |-> OptionAt(poll.options, poll.correctAnswer) = Some(selectedOption)]

\* mutant of UpdatedTally: the respondent is listed and the count is left as it was
UpdatedTallyCountKept(tally, studentId, studentName) ==
  [count |-> tally.count,
   participants |-> Append(tally.participants,
                           [studentId |-> studentId, studentName |-> studentName])]

UpdatedTally(tally, studentId, studentName) ==
  [count |-> tally.count + 1,
   participants |-> Append(tally.participants,
                           [studentId |-> studentId, studentName |-> studentName])]

RecordResponse(poll, studentId, studentName, selectedOption) ==
  [poll EXCEPT
     !.responses = (studentId :> RecordedResponse(poll, studentId, studentName,
                                                  selectedOption)) @@ @,
     !.results = (selectedOption :> UpdatedTally(TallyOf(poll, selectedOption),
                                                 studentId, studentName)) @@ @]

\* the events the response handler publishes
ResponseEvents(pollId, studentId, studentName, selectedOption) ==
  IF ResponseReply(pollId, studentId, selectedOption).status = 200
  THEN <<Event("responseSubmitted", "all",
               [poll |-> RecordResponse(polls[pollId], studentId, studentName,
                                        selectedOption),
                newResponse |-> [studentId |-> studentId,
                                 studentName |-> studentName,
                                 selectedOption |-> selectedOption]])>>
  ELSE << >>

SubmitResponse(pollId, studentId, studentName, selectedOption) ==
  IF ResponseReply(pollId, studentId, selectedOption).status = 200
  THEN /\ polls' = [polls EXCEPT ![pollId] = RecordResponse(@, studentId, studentName,
                                                            selectedOption)]
       /\ UNCHANGED <<currentPoll, pollHistory, activeParticipants, chatMessages, chatIds,
                      kickedOutStudents, timers, sockets>>
  ELSE UNCHANGED vars

(***************************************************************************)
(* endPoll and the countdown timer                                         *)
(***************************************************************************)
\* poll.results[option]?.count || 0
TallyCount(poll, option) ==
  IF option \in DOMAIN poll.results THEN poll.results[option].count ELSE 0

\* mutant of RoundPercent: the share is scaled by 1000
RoundPercentPerMille(count, total) == (2000 * count + total) \div (2 * total)

\* Math.round(count / total * 100) for total > 0, in integers: floor(x + 1/2)
RoundPercent(count, total) == (200 * count + total) \div (2 * total)

RECURSIVE TotalResponses(_, _)
\* totalResponses += count, once per entry of poll.options
TotalResponses(poll, n) ==
  IF n = 0 THEN 0 ELSE TallyCount(poll, poll.options[n]) + TotalResponses(poll, n - 1)

\* correctResponses += count for the index that equals poll.correctAnswer
CorrectResponses(poll) ==
  IF poll.correctAnswer + 1 \in 1..Len(poll.options)
  THEN TallyCount(poll, poll.options[poll.correctAnswer + 1])
  ELSE 0

\* finalResults[option] is written once per entry of poll.options: the last write stays
LastIndexOf(options, option) ==
  CHOOSE i \in 1..Len(options) :
    /\ options[i] = option
    /\ \A j \in (i + 1)..Len(options) : options[j] # option

FinalResults(poll) ==
  LET total == TotalResponses(poll, Len(poll.options))
  IN [o \in OptionSet(poll.options) |->
        [count |-> TallyCount(poll, o),
         percentage |-> IF total > 0 THEN RoundPercent(TallyCount(poll, o), total) ELSE 0,
         isCorrect |-> LastIndexOf(poll.options, o) - 1 = poll.correctAnswer]]

Summary(poll) ==
  LET total == TotalResponses(poll, Len(poll.options))
      correct == CorrectResponses(poll)
      correctPercentage == IF total > 0 THEN RoundPercent(correct, total) ELSE 0
  IN [totalResponses |-> total,
      correctResponses |-> correct,
      incorrectResponses |-> total - correct,
      correctPercentage |-> correctPercentage,
      incorrectPercentage |-> 100 - correctPercentage,
      correctAnswer |-> OptionAt(poll.options, poll.correctAnswer)]

EndedPoll(poll) ==
  [poll EXCEPT !.isActive = FALSE,
               !.timeLeft = 0,
               !.finalResults = Some(FinalResults(poll)),
               !.summary = Some(Summary(poll))]

\* {...poll, participants: Array.from(activeParticipants.values())}
Snapshot(poll) == [participants |-> activeParticipants] @@ poll

\* one row of formattedHistory
FormattedEntry(poll) ==
  [id |-> poll.id,
   question |-> poll.question,
   options |-> poll.options,
   results |-> IF poll.finalResults # Undefined THEN poll.finalResults[1] ELSE poll.results,
   summary |-> poll.summary,
   totalVotes |-> IF poll.summary # Undefined THEN poll.summary[1].totalResponses ELSE 0,
   correctAnswer |-> poll.correctAnswer]

RECURSIVE MapSeq(_, _)
\* Array.prototype.map with FormattedEntry
MapSeq(entries, n) ==
  IF n = 0 THEN << >> ELSE Append(MapSeq(entries, n - 1), FormattedEntry(entries[n]))

\* variant: the history is not filtered by teacher, as in GET /api/history
HistoryReplyUnfiltered(teacherId) ==
  IF teacherId = ""
  THEN [status |-> 400, error |-> "Teacher ID is required"]
  ELSE [status |-> 200,
        history |-> MapSeq(pollHistory, Len(pollHistory)),
        total |-> Len(pollHistory)]

\* GET /api/poll/history?teacherId=
HistoryReply(teacherId) ==
  IF teacherId = ""
  THEN [status |-> 400, error |-> "Teacher ID is required"]
  ELSE LET teacherHistory == SelectSeq(pollHistory, LAMBDA poll : poll.teacherId = teacherId)
       IN [status |-> 200,
           history |-> MapSeq(teacherHistory, Len(teacherHistory)),
           total |-> Len(teacherHistory)]

\* mutant of TimerExpired: the timer stops one second early
TimerExpiredEarly(timeLeft) == timeLeft <= 1

\* if (poll.timeLeft <= 0)
TimerExpired(timeLeft) == timeLeft <= 0

\* mutant of TickEvents: timerUpdate carries timeLeft as it was before the decrement
TickEventsStale(pollId) ==
  LET ticked == [polls[pollId] EXCEPT !.timeLeft = @ - 1]
  IN <<Event("timerUpdate", "all", [timeLeft |-> polls[pollId].timeLeft])>>
     \o (IF TimerExpired(ticked.timeLeft)
         THEN <<Event("pollEnded", "all",
                      [poll |-> EndedPoll(ticked),
                       results |-> FinalResults(ticked),
                       summary |-> Summary(ticked)])>>
         ELSE << >>)

\* the events one run of the timer callback publishes, those of endPoll included
TickEvents(pollId) ==
  LET ticked == [polls[pollId] EXCEPT !.timeLeft = @ - 1]
  IN <<Event("timerUpdate", "all", [timeLeft |-> ticked.timeLeft])>>
     \o (IF TimerExpired(ticked.timeLeft)
         THEN <<Event("pollEnded", "all",
                      [poll |-> EndedPoll(ticked),
                       results |-> FinalResults(ticked),
                       summary |-> Summary(ticked)])>>
         ELSE << >>)

\* one run of the setInterval callback of the poll's timer
Tick(pollId) ==
  /\ timers[pollId] > 0
  /\ LET ticked == [polls[pollId] EXCEPT !.timeLeft = @ - 1]
     IN IF TimerExpired(ticked.timeLeft)
        THEN /\ timers' = [timers EXCEPT ![pollId] = @ - 1]
             /\ polls' = [polls EXCEPT ![pollId] = EndedPoll(ticked)]
             /\ pollHistory' = Append(pollHistory, Snapshot(EndedPoll(ticked)))
        ELSE /\ polls' = [polls EXCEPT ![pollId] = ticked]
             /\ UNCHANGED <<timers, pollHistory>>
  /\ UNCHANGED <<currentPoll, activeParticipants, chatMessages, chatIds, kickedOutStudents,
                 sockets>>

(***************************************************************************)
(* POST /api/participant/join                                              *)
(***************************************************************************)
\* mutant of JoinReply: the kicked-out check is missing
JoinReplyNoKickedCheck(studentId, studentName) ==
  IF studentId = "" \/ studentName = ""
  THEN Reply(400, "Student ID and name are required")
  ELSE Reply(200, "")

JoinReply(studentId, studentName) ==
  IF studentId = "" \/ studentName = ""
  THEN Reply(400, "Student ID and name are required")
  ELSE IF studentId \in kickedOutStudents
  THEN Reply(403, "You have been removed from this session")
  ELSE Reply(200, "")

Participant(studentId, studentName) ==
  [id |-> studentId, name |-> studentName, role |-> "student"]

\* the events the HTTP join handler publishes: it answers the request and emits
\* nothing
HttpJoinEvents(studentId, studentName) == << >>

HttpJoin(studentId, studentName) ==
  IF JoinReply(studentId, studentName).status = 200
  THEN /\ activeParticipants' = MapSet(activeParticipants, studentId,
                                       Participant(studentId, studentName))
       /\ UNCHANGED <<polls, currentPoll, pollHistory, chatMessages, chatIds,
                      kickedOutStudents, timers, sockets>>
  ELSE UNCHANGED vars

(***************************************************************************)
(* Socket connections, in connection order (io.sockets.sockets).  A socket *)
(* carries the role and studentId its handlers set; teacherId, teacherName *)
(* and studentName are only written and are left out.                      *)
(***************************************************************************)
NewSocket == [role |-> "", studentId |-> ""]

RemoveAt(seq, i) == [j \in 1..(Len(seq) - 1) |-> IF j < i THEN seq[j] ELSE seq[j + 1]]

\* io.on('connection')
Connect ==
  /\ Len(sockets) < MaxSockets
  /\ sockets' = Append(sockets, NewSocket)
  /\ UNCHANGED <<polls, currentPoll, pollHistory, activeParticipants, chatMessages, chatIds,
                 kickedOutStudents, timers>>

\* socket.on('joinTeacher')
JoinTeacher(i) ==
  /\ sockets' = [sockets EXCEPT ![i].role = "teacher"]
  /\ UNCHANGED <<polls, currentPoll, pollHistory, activeParticipants, chatMessages, chatIds,
                 kickedOutStudents, timers>>

\* socket.on('joinParticipant'): whether the handler returns at the kicked-out check
\* variant: the kicked-out check of the socket join is missing
JoinParticipantNeverRefused(studentId) == FALSE

JoinParticipantRefused(studentId) == studentId \in kickedOutStudents

\* the events the joinParticipant handler of socket i publishes
JoinParticipantEvents(i, studentId, studentName) ==
  IF JoinParticipantRefused(studentId)
  THEN <<Event("kickedOut", i, "You have been removed from this session")>>
  ELSE LET roster == MapSet(activeParticipants, studentId,
                            Participant(studentId, studentName))
       IN <<Event("participantJoined", "all",
                  [participant |-> Participant(studentId, studentName),
                   participants |-> roster]),
            Event("connectionEstablished", i,
                  [role |-> "student", currentPoll |-> currentPoll,
                   participants |-> roster, chatMessages |-> chatMessages])>>

JoinParticipant(i, studentId, studentName) ==
  IF JoinParticipantRefused(studentId)
  THEN UNCHANGED vars
  ELSE /\ sockets' = [sockets EXCEPT ![i] = [role |-> "student", studentId |-> studentId]]
       /\ activeParticipants' = MapSet(activeParticipants, studentId,
                                       Participant(studentId, studentName))
       /\ UNCHANGED <<polls, currentPoll, pollHistory, chatMessages, chatIds,
                      kickedOutStudents, timers>>

\* socket.on('sendMessage'): whether the handler returns at the kicked-out check
SendRefused(senderRole, senderId) ==
  senderRole = "student" /\ senderId \in kickedOutStudents

ChatMessage(id, message, senderName, senderRole, senderId) ==
  [id |-> id, message |-> Trim(message), senderName |-> senderName,
   senderRole |-> senderRole, senderId |-> senderId]

\* mutant of CapChat: the oldest 100 messages are kept
CapChatOldest(log) == IF Len(log) > MaxChat THEN SubSeq(log, 1, MaxChat) ELSE log

\* if (chatMessages.length > 100) chatMessages = chatMessages.slice(-100)
CapChat(log) ==
  IF Len(log) > MaxChat THEN SubSeq(log, Len(log) - MaxChat + 1, Len(log)) ELSE log

\* the events the sendMessage handler publishes
SendMessageEvents(message, senderName, senderRole, senderId) ==
  IF SendRefused(senderRole, senderId)
  THEN << >>
  ELSE <<Event("newMessage", "all",
               ChatMessage(chatIds + 1, message, senderName, senderRole, senderId))>>

\* socket.on('sendMessage') of socket i
SendMessage(i, message, senderName, senderRole, senderId) ==
  IF SendRefused(senderRole, senderId)
  THEN UNCHANGED vars
  ELSE /\ chatIds < MaxMessages
       /\ chatIds' = chatIds + 1
       /\ chatMessages' =
            CapChat(Append(chatMessages,
                           ChatMessage(chatIds + 1, message, senderName, senderRole,
                                       senderId)))
       /\ UNCHANGED <<polls, currentPoll, pollHistory, activeParticipants,
                      kickedOutStudents, timers, sockets>>

\* the 'disconnect' handler's effect on the roster
\* variant: the role of the socket is not looked at
RosterAfterDisconnectAnyRole(socket, roster) ==
  IF socket.studentId # ""
  THEN MapDelete(roster, socket.studentId)
  ELSE roster

RosterAfterDisconnect(socket, roster) ==
  IF socket.role = "student" /\ socket.studentId # ""
  THEN MapDelete(roster, socket.studentId)
  ELSE roster

\* socket.on('disconnect'): the socket leaves io.sockets.sockets
Disconnect(i) ==
  /\ activeParticipants' = RosterAfterDisconnect(sockets[i], activeParticipants)
  /\ sockets' = RemoveAt(sockets, i)
  /\ UNCHANGED <<polls, currentPoll, pollHistory, chatMessages, chatIds, kickedOutStudents,
                 timers>>

\* the events the 'disconnect' handler of socket i publishes
DisconnectEvents(i) ==
  IF sockets[i].role = "student" /\ sockets[i].studentId # ""
  THEN <<Event("participantRemoved", "all",
               [studentId |-> sockets[i].studentId, reason |-> "disconnected",
                participants |-> MapDelete(activeParticipants, sockets[i].studentId)])>>
  ELSE << >>

\* Array.from(io.sockets.sockets.values()).find(s => s.studentId === studentId); 0: none
FindStudentSocket(studentId) ==
  IF \E i \in 1..Len(sockets) : sockets[i].studentId = studentId
  THEN CHOOSE i \in 1..Len(sockets) :
         /\ sockets[i].studentId = studentId
         /\ \A j \in 1..(i - 1) : sockets[j].studentId # studentId
  ELSE 0

\* socket.on('kickParticipant'); studentSocket.disconnect() runs that socket's
\* 'disconnect' handler before the kick handler goes on
KickParticipant(i, studentId) ==
  IF sockets[i].role # "teacher"
  THEN UNCHANGED vars
  ELSE LET found == FindStudentSocket(studentId)
           roster == MapDelete(activeParticipants, studentId)
       IN /\ kickedOutStudents' = kickedOutStudents \cup {studentId}
          /\ IF found # 0
             THEN /\ activeParticipants' = RosterAfterDisconnect(sockets[found], roster)
                  /\ sockets' = RemoveAt(sockets, found)
             ELSE /\ activeParticipants' = roster
                  /\ UNCHANGED sockets
          /\ UNCHANGED <<polls, currentPoll, pollHistory, chatMessages, chatIds, timers>>

\* the events the kickParticipant handler of socket i publishes, those of the
\* 'disconnect' handler it runs included
KickParticipantEvents(i, studentId) ==
  IF sockets[i].role # "teacher"
  THEN << >>
  ELSE LET found == FindStudentSocket(studentId)
       IN (IF found = 0
           THEN << >>
           ELSE <<Event("kickedOut", found, "Removed by teacher")>>
                \o (IF sockets[found].role = "student"
                    THEN <<Event("participantRemoved", "all", "disconnected")>>
                    ELSE << >>))
          \o <<Event("participantRemoved", "all", "Removed by teacher")>>

(***************************************************************************)
(* src/api/index.js, the serverless entry point: a process of its own with *)
(* its own module-level state, held in the record api.  It has no sockets  *)
(* and no timers.                                                          *)
(***************************************************************************)
ApiInit ==
  [polls |-> << >>,
   pollHistory |-> << >>,
   activeParticipants |-> << >>,
   chatMessages |-> << >>,
   kickedOutStudents |-> {},
   currentPoll |-> 0]

ApiPollExists(pollId) == pollId \in 1..Len(api.polls)

\* POST /api/poll/create
ApiCreateReply(question, options, teacherId, teacherName) ==
  IF question = Blank \/ Len(options) < 2
  THEN Reply(400, "Question and at least 2 options are required")
  ELSE IF teacherId = "" \/ teacherName = ""
  THEN Reply(400, "Teacher ID and name are required")
  ELSE IF api.currentPoll # 0 /\ api.polls[api.currentPoll].isActive
  THEN Reply(409, "There is already an active poll")
  ELSE Reply(201, "")

ApiNewPoll(id, question, options, duration, teacherId, teacherName, correctAnswer) ==
  [id |-> id,
   question |-> Trim(question),
   options |-> StoredOptions(options),
   duration |-> Min(Max(duration, MinDuration), MaxDuration),
   correctAnswer |-> Max(0, Min(correctAnswer, Len(options) - 1)),
   isActive |-> FALSE,
   responses |-> EmptyObject,
   results |-> EmptyObject,
   timeLeft |-> duration,
   teacherId |-> teacherId,
   teacherName |-> teacherName,
   finalResults |-> Undefined,
   summary |-> Undefined]

\* the state of the process after the create handler has run
ApiCreatePoll(question, options, duration, teacherId, teacherName, correctAnswer) ==
  IF ApiCreateReply(question, options, teacherId, teacherName).status = 201
  THEN [api EXCEPT
          !.polls = Append(@, ApiNewPoll(Len(api.polls) + 1, question, options, duration,
                                         teacherId, teacherName, correctAnswer)),
          !.currentPoll = Len(api.polls) + 1]
  ELSE api

\* POST /api/poll/:pollId/start
ApiStartReply(pollId, teacherId) ==
  IF ~ApiPollExists(pollId) THEN Reply(404, "Poll not found")
  ELSE IF api.polls[pollId].teacherId # teacherId
  THEN Reply(403, "Only the poll creator can start this poll")
  ELSE IF api.polls[pollId].isActive THEN Reply(409, "Poll is already active")
  ELSE Reply(200, "")

ApiStartedPoll(poll) ==
  [poll EXCEPT !.isActive = TRUE,
               !.timeLeft = poll.duration,
               !.responses = EmptyObject,
               !.results = [o \in OptionSet(poll.options) |-> ZeroTally]]

\* the state of the process after the start handler has run: no timer is set
ApiStartPoll(pollId, teacherId) ==
  IF ApiStartReply(pollId, teacherId).status = 200
  THEN [api EXCEPT !.polls[pollId] = ApiStartedPoll(@),
                   !.chatMessages = << >>]
  ELSE api

\* POST /api/poll/:pollId/response
ApiResponseReply(pollId, studentId, selectedOption) ==
  IF studentId \in api.kickedOutStudents
  THEN Reply(403, "You have been removed from this session")
  ELSE IF ~ApiPollExists(pollId) THEN Reply(404, "Poll not found")
  ELSE IF ~api.polls[pollId].isActive THEN Reply(400, "Poll is not currently active")
  ELSE IF selectedOption \notin OptionSet(api.polls[pollId].options)
  THEN Reply(400, "Invalid option selected")
  ELSE IF studentId \in DOMAIN api.polls[pollId].responses
  THEN Reply(409, "You have already responded to this poll")
  ELSE Reply(200, "")

ApiRecordResponse(poll, studentId, studentName, selectedOption) ==
  LET tally == IF selectedOption \in DOMAIN poll.results
               THEN poll.results[selectedOption]
               ELSE ZeroTally
  IN [poll EXCEPT
        !.responses =
          (studentId :>
             [studentId |-> studentId,
              studentName |-> studentName,
              selectedOption |-> selectedOption,
              isCorrect |-> OptionAt(poll.options, poll.correctAnswer)
                              = Some(selectedOption)]) @@ @,
        !.results =
          (selectedOption :>
             [count |-> tally.count + 1,
              participants |-> Append(tally.participants,
                                      [studentId |-> studentId,
                                       studentName |-> studentName])]) @@ @]

\* the state of the process after the response handler has run
ApiSubmitResponse(pollId, studentId, studentName, selectedOption) ==
  IF ApiResponseReply(pollId, studentId, selectedOption).status = 200
  THEN [api EXCEPT !.polls[pollId] =
                     ApiRecordResponse(@, studentId, studentName, selectedOption)]
  ELSE api

\* POST /api/participant/join
ApiJoinReply(studentId, studentName) ==
  IF studentId = "" \/ studentName = ""
  THEN Reply(400, "Student ID and name are required")
  ELSE IF studentId \in api.kickedOutStudents
  THEN Reply(403, "You have been removed from this session")
  ELSE Reply(200, "")

\* the state of the process after the join handler has run
ApiJoin(studentId, studentName) ==
  IF ApiJoinReply(studentId, studentName).status = 200
  THEN [api EXCEPT !.activeParticipants =
                     MapSet(@, studentId,
                            [id |-> studentId, name |-> studentName, role |-> "student"])]
  ELSE api

(***************************************************************************)
(* The session after the module is loaded.                                 *)
(***************************************************************************)
Init ==
  /\ polls = << >>
  /\ currentPoll = 0
  /\ pollHistory = << >>
  /\ activeParticipants = << >>
  /\ chatMessages = << >>
  /\ kickedOutStudents = {}
  /\ timers = [p \in PollIds |-> 0]
  /\ sockets = << >>
  /\ chatIds = 0
  /\ api = ApiInit

(***************************************************************************)
(* Requests.                                                               *)
(***************************************************************************)
CreateRequest(question, options, duration, teacherId, teacherName, correctAnswer) ==
  [question |-> question, options |-> options, duration |-> duration,
   teacherId |-> teacherId, teacherName |-> teacherName,
   correctAnswer |-> correctAnswer]

CreateRequests ==
  {CreateRequest(Q, <<A, B>>, 5, "t1", "T", -1),
   CreateRequest(Q, <<A, A>>, 5, "t1", "T", 0),
   CreateRequest(Q, <<A, SP>>, 5, "t1", "T", 2),
   CreateRequest(Blank, <<A, B>>, 5, "t1", "T", 0),
   CreateRequest(Q, <<A>>, 5, "t1", "T", 0),
   CreateRequest(Q, <<A, B>>, 5, "", "T", 0),
   CreateRequest(Q, <<A, B>>, 5, "t1", "", 0)}

ValidCreateRequests ==
  {r \in CreateRequests :
     /\ r.question # Blank /\ Len(r.options) >= 2
     /\ r.teacherId # "" /\ r.teacherName # ""}

\* a well-formed request and one without a question
PlainCreateRequests ==
  {CreateRequest(Q, <<A, B>>, 5, "t1", "T", -1),
   CreateRequest(Blank, <<A, B>>, 5, "t1", "T", 0)}

\* well-formed requests that differ in the duration asked for
Durations == {0, 5, 10, 60, 300, 301, 1000}

DurationRequests == {CreateRequest(Q, <<A, B>>, d, "t1", "T", 0) : d \in Durations}

\* the text of a chat message, with a leading space for trim() to remove
M == <<" ", "m">>

TeacherIds == {"t1", "t2"}
StudentIds == {"s1"}
Respondents == {"s1", "s2"}
StudentNames == {"", "n"}
Selections == {A, B, Z}

(***************************************************************************)
(* Spec: the polls, roster, ejected set and sockets of the whole server,    *)
(* one respondent id.  The chat is posted to in SpecChat.                  *)
(***************************************************************************)
Next ==
  \/ /\ \E r \in CreateRequests :
          CreatePoll(r.question, r.options, r.duration, r.teacherId, r.teacherName,
                     r.correctAnswer)
     /\ UNCHANGED api
  \/ /\ \E p \in PollIds, t \in TeacherIds : StartPoll(p, t)
     /\ UNCHANGED api
  \/ /\ \E p \in PollIds, s \in StudentIds, o \in Selections : SubmitResponse(p, s, "n", o)
     /\ UNCHANGED api
  \/ /\ \E p \in PollIds : Tick(p)
     /\ UNCHANGED api
  \/ /\ \E s \in StudentIds \cup {""}, n \in StudentNames : HttpJoin(s, n)
     /\ UNCHANGED api
  \/ /\ Connect
     /\ UNCHANGED api
  \/ /\ \E i \in 1..Len(sockets) : JoinTeacher(i)
     /\ UNCHANGED api
  \/ /\ \E i \in 1..Len(sockets), s \in StudentIds : JoinParticipant(i, s, "n")
     /\ UNCHANGED api
  \/ /\ \E i \in 1..Len(sockets), s \in StudentIds : KickParticipant(i, s)
     /\ UNCHANGED api
  \/ /\ \E i \in 1..Len(sockets) : Disconnect(i)
     /\ UNCHANGED api

Spec == Init /\ [][Next]_vars

(***************************************************************************)
(* SpecPoll: the poll lifecycle alone (create, start, respond, tick), with *)
(* several polls and one respondent id.  FairSpecPoll adds what            *)
(* setInterval gives: a running timer's callback keeps being run.          *)
(***************************************************************************)
NextPoll ==
  \/ /\ \E r \in PlainCreateRequests :
          CreatePoll(r.question, r.options, r.duration, r.teacherId, r.teacherName,
                     r.correctAnswer)
     /\ UNCHANGED api
  \/ /\ \E p \in PollIds, t \in TeacherIds : StartPoll(p, t)
     /\ UNCHANGED api
  \/ /\ \E p \in PollIds, s \in StudentIds, o \in {A, Z} : SubmitResponse(p, s, "n", o)
     /\ UNCHANGED api
  \/ /\ \E p \in PollIds : Tick(p)
     /\ UNCHANGED api

SpecPoll == Init /\ [][NextPoll]_vars

FairSpecPoll == SpecPoll /\ \A p \in PollIds : WF_vars(Tick(p))

(***************************************************************************)
(* SpecOnePoll: the lifecycle of a session's first poll, which may be      *)
(* started again after it ended, with two respondent ids.                  *)
(***************************************************************************)
NextOnePoll ==
  \/ /\ polls = << >>
     /\ \E r \in CreateRequests :
          CreatePoll(r.question, r.options, r.duration, r.teacherId, r.teacherName,
                     r.correctAnswer)
     /\ UNCHANGED api
  \/ /\ \E p \in PollIds, t \in TeacherIds : StartPoll(p, t)
     /\ UNCHANGED api
  \/ /\ \E p \in PollIds, s \in Respondents, o \in Selections : SubmitResponse(p, s, "n", o)
     /\ UNCHANGED api
  \/ /\ \E p \in PollIds : Tick(p)
     /\ UNCHANGED api

SpecOnePoll == Init /\ [][NextOnePoll]_vars

(***************************************************************************)
(* SpecSession: admission control (joins, kicks, disconnects) around a     *)
(* session's first poll, one respondent id.                                *)
(***************************************************************************)
NextSession ==
  \/ /\ polls = << >>
     /\ \E r \in PlainCreateRequests :
          CreatePoll(r.question, r.options, r.duration, r.teacherId, r.teacherName,
                     r.correctAnswer)
     /\ UNCHANGED api
  \/ /\ \E p \in PollIds, t \in TeacherIds : StartPoll(p, t)
     /\ UNCHANGED api
  \/ /\ \E p \in PollIds, s \in StudentIds, o \in {A, Z} : SubmitResponse(p, s, "n", o)
     /\ UNCHANGED api
  \/ /\ \E p \in PollIds : Tick(p)
     /\ UNCHANGED api
  \/ /\ \E s \in StudentIds \cup {""}, n \in StudentNames : HttpJoin(s, n)
     /\ UNCHANGED api
  \/ /\ Connect
     /\ UNCHANGED api
  \/ /\ \E i \in 1..Len(sockets) : JoinTeacher(i)
     /\ UNCHANGED api
  \/ /\ \E i \in 1..Len(sockets), s \in StudentIds : JoinParticipant(i, s, "n")
     /\ UNCHANGED api
  \/ /\ \E i \in 1..Len(sockets), s \in StudentIds : KickParticipant(i, s)
     /\ UNCHANGED api
  \/ /\ \E i \in 1..Len(sockets) : Disconnect(i)
     /\ UNCHANGED api

SpecSession == Init /\ [][NextSession]_vars

\* one poll for each of two teachers, and a respondent who joins, answers and leaves
HistoryCreateRequests == {CreateRequest(Q, <<A, B>>, 5, t, "T", 0) : t \in TeacherIds}

NextHistory ==
  \/ /\ \E r \in HistoryCreateRequests :
          /\ \A p \in 1..Len(polls) : polls[p].teacherId # r.teacherId
          /\ CreatePoll(r.question, r.options, r.duration, r.teacherId, r.teacherName,
                        r.correctAnswer)
     /\ UNCHANGED api
  \/ /\ \E p \in PollIds, t \in TeacherIds : StartPoll(p, t)
     /\ UNCHANGED api
  \/ /\ \E p \in PollIds, s \in StudentIds, o \in {A, Z} : SubmitResponse(p, s, "n", o)
     /\ UNCHANGED api
  \/ /\ \E p \in PollIds : Tick(p)
     /\ UNCHANGED api
  \/ /\ sockets = << >> /\ Connect
     /\ UNCHANGED api
  \/ /\ \E i \in 1..Len(sockets), s \in StudentIds : JoinParticipant(i, s, "n")
     /\ UNCHANGED api
  \/ /\ \E i \in 1..Len(sockets) : Disconnect(i)
     /\ UNCHANGED api

SpecHistory == Init /\ [][NextHistory]_vars

\* two respondents who join over HTTP and over sockets, are kicked and disconnect
NextRoster ==
  \/ /\ \E s \in Respondents : HttpJoin(s, "n")
     /\ UNCHANGED api
  \/ /\ Connect
     /\ UNCHANGED api
  \/ /\ \E i \in 1..Len(sockets) : JoinTeacher(i)
     /\ UNCHANGED api
  \/ /\ \E i \in 1..Len(sockets), s \in Respondents : JoinParticipant(i, s, "n")
     /\ UNCHANGED api
  \/ /\ \E i \in 1..Len(sockets), s \in Respondents : KickParticipant(i, s)
     /\ UNCHANGED api
  \/ /\ \E i \in 1..Len(sockets) : Disconnect(i)
     /\ UNCHANGED api

SpecRoster == Init /\ [][NextRoster]_vars

\* the same commands sent to src/server.js and to src/api/index.js, and the
\* seconds that pass, in which the timers of src/server.js run
NextEntryPoints ==
  \/ \E r \in PlainCreateRequests :
       /\ CreatePoll(r.question, r.options, r.duration, r.teacherId, r.teacherName,
                     r.correctAnswer)
       /\ api' = ApiCreatePoll(r.question, r.options, r.duration, r.teacherId,
                               r.teacherName, r.correctAnswer)
  \/ \E p \in PollIds, t \in TeacherIds :
       /\ StartPoll(p, t)
       /\ api' = ApiStartPoll(p, t)
  \/ \E p \in PollIds, s \in StudentIds, o \in {A, Z} :
       /\ SubmitResponse(p, s, "n", o)
       /\ api' = ApiSubmitResponse(p, s, "n", o)
  \/ \E s \in StudentIds :
       /\ HttpJoin(s, "n")
       /\ api' = ApiJoin(s, "n")
  \/ \E p \in PollIds :
       /\ Tick(p)
       /\ UNCHANGED api

SpecEntryPoints == Init /\ [][NextEntryPoints]_<<vars, api>>

(***************************************************************************)
(* SpecDuration: one poll created with any of the durations, started (and  *)
(* started again) and run down by its timer.                               *)
(***************************************************************************)
NextDuration ==
  \/ /\ polls = << >>
     /\ \E r \in DurationRequests :
          CreatePoll(r.question, r.options, r.duration, r.teacherId, r.teacherName,
                     r.correctAnswer)
     /\ UNCHANGED api
  \/ /\ \E p \in PollIds, t \in TeacherIds : StartPoll(p, t)
     /\ UNCHANGED api
  \/ /\ \E p \in PollIds : Tick(p)
     /\ UNCHANGED api

SpecDuration == Init /\ [][NextDuration]_vars

(***************************************************************************)
(* SpecChat: the chat log.  One respondent posts, from any open socket,    *)
(* until a teacher ejects the respondent; the start of a poll clears the   *)
(* log.                                                                    *)
(***************************************************************************)
NextChat ==
  \/ /\ Connect
     /\ UNCHANGED api
  \/ /\ \E i \in 1..Len(sockets) : JoinTeacher(i)
     /\ UNCHANGED api
  \/ /\ \E i \in 1..Len(sockets), s \in StudentIds : KickParticipant(i, s)
     /\ UNCHANGED api
  \/ /\ \E i \in 1..Len(sockets), s \in StudentIds : SendMessage(i, M, "n", "student", s)
     /\ UNCHANGED api
  \/ /\ polls = << >>
     /\ \E r \in PlainCreateRequests :
          CreatePoll(r.question, r.options, r.duration, r.teacherId, r.teacherName,
                     r.correctAnswer)
     /\ UNCHANGED api
  \/ /\ \E p \in PollIds, t \in TeacherIds : StartPoll(p, t)
     /\ UNCHANGED api

SpecChat == Init /\ [][NextChat]_vars

(***************************************************************************)
(* SpecStart: what a start finds and leaves: several polls with their      *)
(* responses and timers, a roster entry, and a chat message posted from    *)
(* the session's first socket.                                             *)
(***************************************************************************)
NextStart ==
  \/ /\ \E r \in PlainCreateRequests :
          CreatePoll(r.question, r.options, r.duration, r.teacherId, r.teacherName,
                     r.correctAnswer)
     /\ UNCHANGED api
  \/ /\ \E p \in PollIds, t \in TeacherIds : StartPoll(p, t)
     /\ UNCHANGED api
  \/ /\ \E p \in PollIds, s \in StudentIds : SubmitResponse(p, s, "n", A)
     /\ UNCHANGED api
  \/ /\ \E p \in PollIds : Tick(p)
     /\ UNCHANGED api
  \/ /\ \E s \in StudentIds : HttpJoin(s, "n")
     /\ UNCHANGED api
  \/ /\ sockets = << >> /\ Connect
     /\ UNCHANGED api
  \/ /\ chatIds = 0
     /\ \E i \in 1..Len(sockets), s \in StudentIds : SendMessage(i, M, "n", "student", s)
     /\ UNCHANGED api

SpecStart == Init /\ [][NextStart]_vars

(***************************************************************************)
(* Poll states.  The code keeps no state field: a poll is Active while     *)
(* isActive holds, Ended when endPoll has run on it and it is not Active,  *)
(* and Draft otherwise.                                                    *)
(***************************************************************************)
StoredPolls == 1..Len(polls)
Active(p) == polls[p].isActive
Ended(p) == ~polls[p].isActive /\ polls[p].summary # Undefined
Draft(p) == ~polls[p].isActive /\ polls[p].summary = Undefined
ActivePolls == {p \in StoredPolls : Active(p)}

(***************************************************************************)
(* C1.  In every reachable state at most one poll of the whole store is    *)
(* Active.                                                                 *)
(***************************************************************************)
AtMostOneActive == Cardinality(ActivePolls) <= 1

(***************************************************************************)
(* C2.  Ended is terminal: a step from a state in which a poll is Ended    *)
(* leaves it not Active and leaves its responses, tally, finalResults and  *)
(* summary as they were.                                                   *)
(***************************************************************************)
EndedStays(p) ==
  Ended(p) =>
    /\ ~polls'[p].isActive
    /\ polls'[p].responses = polls[p].responses
    /\ polls'[p].results = polls[p].results
    /\ polls'[p].finalResults = polls[p].finalResults
    /\ polls'[p].summary = polls[p].summary

\* C2: no step changes an Ended poll or makes it Active again
EndedIsTerminal == [][\A p \in StoredPolls : EndedStays(p)]_vars

(***************************************************************************)
(* C3.  For every poll and every option text, the tally count equals the   *)
(* number of recorded responses that select the text and the length of the *)
(* tally's respondent list; and for every Ended poll the tally counts add  *)
(* up to the number of participant ids in responses.                       *)
(***************************************************************************)
OptionTexts == Selections \cup {SP, Blank}

ResponsesFor(p, option) ==
  {s \in DOMAIN polls[p].responses : polls[p].responses[s].selectedOption = option}

RECURSIVE SumOfCounts(_, _)
SumOfCounts(results, texts) ==
  IF texts = {} THEN 0
  ELSE LET o == CHOOSE x \in texts : TRUE
       IN results[o].count + SumOfCounts(results, texts \ {o})

\* C3: tally counts, respondent lists and responses agree
TallyMatchesResponses ==
  \A p \in StoredPolls :
    /\ DOMAIN polls[p].results \subseteq OptionTexts
    /\ \A o \in OptionTexts :
         /\ o \notin DOMAIN polls[p].results => ResponsesFor(p, o) = {}
         /\ o \in DOMAIN polls[p].results =>
              /\ polls[p].results[o].count = Cardinality(ResponsesFor(p, o))
              /\ Len(polls[p].results[o].participants) = Cardinality(ResponsesFor(p, o))
    /\ Ended(p) =>
         SumOfCounts(polls[p].results, DOMAIN polls[p].results)
           = Cardinality(DOMAIN polls[p].responses)

\* an Ended poll that two participants answered
TallyWitness ==
  \E p \in StoredPolls : Ended(p) /\ Cardinality(DOMAIN polls[p].responses) = 2

(***************************************************************************)
(* C4.  A participant with a recorded response for an Active poll is       *)
(* answered ConflictError (409) on any further submitResponse with one of  *)
(* the poll's options, such a request changes nothing, and no participant  *)
(* is listed twice in a poll's tallies.                                    *)
(***************************************************************************)
HasResponded(p, s) == Active(p) /\ s \in DOMAIN polls[p].responses

SecondResponseRefused ==
  \A p \in StoredPolls, s \in Respondents :
    HasResponded(p, s) =>
      \A o \in OptionSet(polls[p].options) : ResponseReply(p, s, o).status = 409

RECURSIVE TimesListed(_, _, _)
TimesListed(results, texts, s) ==
  IF texts = {} THEN 0
  ELSE LET o == CHOOSE x \in texts : TRUE
           listed == {i \in 1..Len(results[o].participants) :
                        results[o].participants[i].studentId = s}
       IN Cardinality(listed) + TimesListed(results, texts \ {o}, s)

OneResponseEach ==
  \A p \in StoredPolls, s \in Respondents :
    TimesListed(polls[p].results, DOMAIN polls[p].results, s)
      = IF s \in DOMAIN polls[p].responses THEN 1 ELSE 0

SecondResponseChangesNothing ==
  \A p \in StoredPolls, s \in Respondents, o \in Selections :
    (HasResponded(p, s) /\ o \in OptionSet(polls[p].options)
       /\ SubmitResponse(p, s, "n", o)) => UNCHANGED vars

EjectedRefused ==
  \A s \in kickedOutStudents :
    /\ \A n \in StudentNames :
         JoinReply(s, n).status = IF n = "" THEN 400 ELSE 403
    /\ \A i \in 1..Len(sockets) :
         JoinParticipantEvents(i, s, "n") =
           <<Event("kickedOut", i, "You have been removed from this session")>>
    /\ \A p \in PollIds, o \in Selections : ResponseReply(p, s, o).status = 403

EjectedStaysOut ==
  \A s \in kickedOutStudents :
    /\ s \in kickedOutStudents'
    /\ ~MapHas(activeParticipants', s)
    /\ \A p \in StoredPolls :
         s \in DOMAIN polls'[p].responses =>
           /\ s \in DOMAIN polls[p].responses
           /\ polls'[p].responses[s] = polls[p].responses[s]

\* C5: an ejected id is refused on every path and stays ejected
EjectedForGood == [](EjectedRefused) /\ [][EjectedStaysOut]_vars

\* an ejected id facing an open socket and an Active poll it has not answered
EjectedWitness ==
  /\ "s1" \in kickedOutStudents
  /\ Len(sockets) > 0
  /\ \E p \in StoredPolls : Active(p) /\ "s1" \notin DOMAIN polls[p].responses

(***************************************************************************)
(* C6.  While some poll is Active a valid createPoll is answered           *)
(* ConflictError (409); while no poll is Active and the current poll is a  *)
(* Draft, a valid createPoll succeeds (201).                               *)
(***************************************************************************)
CreateRefusedWhileActive ==
  \A r \in ValidCreateRequests :
    /\ ActivePolls # {} =>
         CreateReply(r.question, r.options, r.teacherId, r.teacherName).status = 409
    /\ (ActivePolls = {} /\ currentPoll # 0 /\ Draft(currentPoll)) =>
         CreateReply(r.question, r.options, r.teacherId, r.teacherName).status = 201

(***************************************************************************)
(* C7.  With every running timer's callback being run again and again, a   *)
(* poll that is Active is eventually Ended.  A started poll has timeLeft = *)
(* duration >= 10; while it is Active only its own tick changes timeLeft,  *)
(* by exactly -1; and it leaves Active only by the tick that takes         *)
(* timeLeft from 1 to 0, which makes it Ended.                             *)
(***************************************************************************)
TimerSteps(p) ==
  /\ (~Active(p) /\ polls'[p].isActive) =>
       /\ polls'[p].timeLeft = polls[p].duration
       /\ polls[p].duration >= MinDuration
  /\ (Active(p) /\ polls'[p].isActive) =>
       \/ polls'[p].timeLeft = polls[p].timeLeft
       \/ polls'[p].timeLeft = polls[p].timeLeft - 1 /\ Tick(p)
  /\ (Active(p) /\ ~polls'[p].isActive) =>
       /\ polls[p].timeLeft = 1
       /\ polls'[p].timeLeft = 0
       /\ polls'[p].summary # Undefined
       /\ Len(pollHistory') = Len(pollHistory) + 1
       /\ Tick(p)

EndsOnlyAtZero == [][\A p \in StoredPolls : TimerSteps(p)]_vars

EventuallyEnded ==
  \A p \in PollIds : (PollExists(p) /\ Active(p)) ~> (PollExists(p) /\ Ended(p))

\* C7: an Active poll ends, and only by the tick that takes timeLeft to 0
ActivePollEndsByTimer == EndsOnlyAtZero /\ EventuallyEnded

\* a poll ended by its timer while another poll's timer is still running
TimerWitness ==
  \E p, q \in StoredPolls : Ended(p) /\ Active(q) /\ polls[q].timeLeft < polls[q].duration

(***************************************************************************)
(* C8.  For every Ended poll, finalResults has one entry per entry of      *)
(* options; the entry of the option at index i has count = the number of   *)
(* responses that select it, percentage = count / totalResponses * 100     *)
(* rounded half up (0 without responses) and isCorrect true exactly when   *)
(* i = correctAnswer; summary.correctPercentage is the rounded share of    *)
(* the responses that select the option at index correctAnswer.            *)
(***************************************************************************)
\* num / den rounded half up, for 0 <= num <= den
HalfUpPercent(num, den) ==
  CHOOSE k \in 0..100 :
    2 * den * k <= 200 * num + den /\ 200 * num + den < 2 * den * (k + 1)

FinalResultsOf(p) ==
  LET poll == polls[p]
      final == poll.finalResults[1]
      total == Cardinality(DOMAIN poll.responses)
      correct == IF poll.correctAnswer + 1 \in 1..Len(poll.options)
                 THEN Cardinality(ResponsesFor(p, poll.options[poll.correctAnswer + 1]))
                 ELSE 0
  IN /\ DOMAIN final = OptionSet(poll.options)
     /\ Cardinality(DOMAIN final) = Len(poll.options)
     /\ \A i \in 1..Len(poll.options) :
          LET votes == Cardinality(ResponsesFor(p, poll.options[i]))
              entry == final[poll.options[i]]
          IN /\ entry.count = votes
             /\ entry.percentage = IF total = 0 THEN 0 ELSE HalfUpPercent(votes, total)
             /\ entry.isCorrect = (i - 1 = poll.correctAnswer)
     /\ poll.summary[1].correctPercentage =
          IF total = 0 THEN 0 ELSE HalfUpPercent(correct, total)

\* C8: an Ended poll's finalResults and correctPercentage are as computed from its responses
FinalResultsAsSpecified == \A p \in StoredPolls : Ended(p) => FinalResultsOf(p)

(***************************************************************************)
(* C9.  Every stored poll's correctAnswer is an index of its stored        *)
(* options list.                                                           *)
(***************************************************************************)
CorrectAnswerInRange ==
  \A p \in StoredPolls : polls[p].correctAnswer \in 0..(Len(polls[p].options) - 1)

(***************************************************************************)
(* C10.  createPoll answers 400 when the question is empty, when fewer     *)
(* than 2 options are non-empty after trimming, or when the creator's id   *)
(* or name is missing; and every stored poll has at least 2 options, all   *)
(* non-empty.                                                              *)
(***************************************************************************)
NonEmptyEntries(options) == {i \in 1..Len(options) : Trim(options[i]) # Blank}

MustBeRefused(r) ==
  \/ r.question = Blank
  \/ Cardinality(NonEmptyEntries(r.options)) < 2
  \/ r.teacherId = ""
  \/ r.teacherName = ""

StoredOptionsValid ==
  \A p \in StoredPolls :
    /\ Len(polls[p].options) >= 2
    /\ \A i \in 1..Len(polls[p].options) : polls[p].options[i] # Blank

RefusedCreateStoresNothing ==
  \A r \in CreateRequests :
    (MustBeRefused(r) /\ CreatePoll(r.question, r.options, r.duration, r.teacherId,
                                     r.teacherName, r.correctAnswer))
      => /\ CreateReply(r.question, r.options, r.teacherId, r.teacherName).status = 400
         /\ UNCHANGED vars

\* C10: no stored poll has fewer than 2 options or an empty one, and a request that must be refused stores nothing
CreateValidated == [](StoredOptionsValid) /\ [][RefusedCreateStoresNothing]_vars

(***************************************************************************)
(* C11.  A createPoll that stores a poll stores duration = min(max(d, 10), *)
(* 300) for the requested duration d (5 gives 10, 1000 gives 300, a value  *)
(* in 10..300 is kept), and a start sets timeLeft to the stored duration.  *)
(***************************************************************************)
Clamped(d) == IF d < 10 THEN 10 ELSE IF d > 300 THEN 300 ELSE d

DurationStored ==
  \A r \in DurationRequests :
    (/\ Len(polls') = Len(polls) + 1
     /\ CreatePoll(r.question, r.options, r.duration, r.teacherId, r.teacherName,
                   r.correctAnswer))
      => polls'[Len(polls')].duration = Clamped(r.duration)

StartSetsTimeLeft ==
  \A p \in StoredPolls :
    (~Active(p) /\ polls'[p].isActive) =>
      /\ polls'[p].timeLeft = polls[p].duration
      /\ polls'[p].duration = polls[p].duration
      /\ polls[p].duration \in 10..300

\* C11: the stored duration is the requested one clamped to 10..300, and a start
\* sets timeLeft to it
DurationClamped ==
  /\ [][DurationStored /\ StartSetsTimeLeft]_vars
  /\ [](/\ ClampDuration(5) = 10
        /\ ClampDuration(1000) = 300
        /\ \A d \in 10..300 : ClampDuration(d) = d)

\* a stored poll that was asked for with 1000 seconds (timeLeft holds the request
\* until the first start) and has duration 300
DurationWitness ==
  \E p \in StoredPolls :
    ~Active(p) /\ polls[p].timeLeft = 1000 /\ polls[p].duration = 300

(***************************************************************************)
(* C12.  For every Ended poll, and for every poll as it was recorded in    *)
(* the history when it ended, incorrectPercentage = 100 -                  *)
(* correctPercentage and both lie in 0..100, also without responses.       *)
(***************************************************************************)
Complementary(summary) ==
  /\ summary.incorrectPercentage = 100 - summary.correctPercentage
  /\ summary.correctPercentage \in 0..100
  /\ summary.incorrectPercentage \in 0..100

\* C12: incorrectPercentage = 100 - correctPercentage, both in 0..100
PercentagesComplementary ==
  /\ \A p \in StoredPolls : Ended(p) => Complementary(polls[p].summary[1])
  /\ \A h \in 1..Len(pollHistory) : Complementary(pollHistory[h].summary[1])

\* a poll that ended without responses, was started again and ended with one
\* correct and one incorrect response
PercentagesWitness ==
  /\ \E h \in 1..Len(pollHistory) : pollHistory[h].summary[1].totalResponses = 0
  /\ \E p \in StoredPolls :
       /\ Ended(p)
       /\ polls[p].summary[1].totalResponses = 2
       /\ polls[p].summary[1].correctPercentage = 50

(***************************************************************************)
(* C13.  The chat log never holds more than 100 messages and keeps the     *)
(* posting order; after every accepted post the log equals the last 100    *)
(* elements of the previous log followed by the new message.               *)
(***************************************************************************)
\* the last n elements of a sequence (all of it when it is shorter)
LastOf(seq, n) ==
  LET k == IF Len(seq) < n THEN Len(seq) ELSE n
  IN [j \in 1..k |-> seq[Len(seq) - k + j]]

ChatWithinCap ==
  /\ Len(chatMessages) <= 100
  /\ \A k \in 1..(Len(chatMessages) - 1) :
       chatMessages[k + 1].id = chatMessages[k].id + 1

PostKeepsLast100 ==
  chatIds' # chatIds =>
    LET posted == chatMessages'[Len(chatMessages')]
    IN /\ posted = ChatMessage(chatIds', M, "n", "student", "s1")
       /\ posted.message = <<"m">>
       /\ chatMessages' = LastOf(Append(chatMessages, posted), 100)

\* C13: the log is capped at 100 and every post keeps the last 100 in order
ChatCapped == [](ChatWithinCap) /\ [][PostKeepsLast100]_vars

\* 105 messages were posted into one log: the oldest 5 are gone
ChatWitness ==
  /\ chatIds = 105
  /\ Len(chatMessages) = 100
  /\ chatMessages[1].id = 6
  /\ chatMessages[100].id = 105

(***************************************************************************)
(* C14.  When a teacher's kick of participant id P completes, P is in the  *)
(* ejected set and absent from the roster, every connection that joined as *)
(* respondent P was sent a kickedOut notice, and none of them is still     *)
(* connected.                                                              *)
(***************************************************************************)
JoinedAs(socket, studentId) == socket.studentId = studentId

KickTerminates(i, studentId) ==
  (sockets[i].role = "teacher" /\ KickParticipant(i, studentId)) =>
    /\ studentId \in kickedOutStudents'
    /\ ~MapHas(activeParticipants', studentId)
    /\ \A j \in 1..Len(sockets) :
         JoinedAs(sockets[j], studentId) =>
           \E e \in 1..Len(KickParticipantEvents(i, studentId)) :
             /\ KickParticipantEvents(i, studentId)[e].name = "kickedOut"
             /\ KickParticipantEvents(i, studentId)[e].to = j
    /\ \A j \in 1..Len(sockets') : ~JoinedAs(sockets'[j], studentId)

\* C14: a kick leaves the participant ejected, off the roster and without a
\* live connection
KickRemovesEveryConnection ==
  [][\A i \in 1..Len(sockets), s \in StudentIds : KickTerminates(i, s)]_vars

(***************************************************************************)
(* C15.  submitResponse is answered 403 when the participant is ejected;   *)
(* else 404 when the poll is unknown; else 400 when the poll is not        *)
(* Active; else 400 when the option is not one of the poll's; else 409     *)
(* when the participant has a response; else it succeeds.  A failing call  *)
(* changes nothing and publishes nothing, and a response is recorded only  *)
(* by a succeeding call.                                                   *)
(***************************************************************************)
Ejected(s) == s \in kickedOutStudents
Known(p) == p \in StoredPolls
Offered(p, o) == \E k \in 1..Len(polls[p].options) : polls[p].options[k] = o
Answered(p, s) == s \in DOMAIN polls[p].responses

ResponsePrecedence ==
  \A p \in PollIds, s \in Respondents, o \in Selections :
    LET reply == ResponseReply(p, s, o)
    IN /\ Ejected(s) => reply.status = 403
       /\ (~Ejected(s) /\ ~Known(p)) => reply.status = 404
       /\ (~Ejected(s) /\ Known(p)) =>
            /\ ~Active(p) => reply = Reply(400, "Poll is not currently active")
            /\ (Active(p) /\ ~Offered(p, o)) =>
                 reply = Reply(400, "Invalid option selected")
            /\ (Active(p) /\ Offered(p, o) /\ Answered(p, s)) => reply.status = 409
            /\ (Active(p) /\ Offered(p, o) /\ ~Answered(p, s)) => reply.status = 200
       /\ reply.status # 200 => ResponseEvents(p, s, "n", o) = << >>

FailedResponseChangesNothing ==
  /\ \A p \in PollIds, s \in StudentIds, o \in {A, Z} :
       (ResponseReply(p, s, o).status # 200 /\ SubmitResponse(p, s, "n", o)) =>
         UNCHANGED vars
  /\ \A p \in StoredPolls, s \in Respondents :
       (/\ Answered(p, s)'
        /\ ~Answered(p, s) \/ polls'[p].responses[s] # polls[p].responses[s]) =>
         /\ ~Ejected(s) /\ Active(p) /\ ~Answered(p, s)
         /\ Offered(p, polls'[p].responses[s].selectedOption)
         /\ ResponseReply(p, s, polls'[p].responses[s].selectedOption).status = 200

\* C15: the refusals of submitResponse in their order, and no effect of a refused call
ResponseChecked == [](ResponsePrecedence) /\ [][FailedResponseChangesNothing]_vars

\* an ejected participant with a response on an ended poll, beside an unknown poll id:
\* every refusal but the first is shadowed
ResponseCheckedWitness ==
  /\ Ejected("s1")
  /\ Known(1) /\ Ended(1) /\ Answered(1, "s1")
  /\ ~Known(2)

(***************************************************************************)
(* C16.  startPoll is answered 404 when the poll is unknown; else 403 when *)
(* the requester is not the poll's creator; else 409 when the poll is      *)
(* Active; else it succeeds.  A refused call changes nothing, creates no   *)
(* timer and publishes no pollStarted; a poll is started only by a call    *)
(* that passes the three tests.                                            *)
(***************************************************************************)
Creator(p, t) == polls[p].teacherId = t

StartPrecedence ==
  \A p \in PollIds, t \in TeacherIds :
    LET reply == StartReply(p, t)
    IN /\ ~Known(p) => reply.status = 404
       /\ (Known(p) /\ ~Creator(p, t)) => reply.status = 403
       /\ (Known(p) /\ Creator(p, t) /\ Active(p)) => reply.status = 409
       /\ (Known(p) /\ Creator(p, t) /\ ~Active(p)) => reply.status = 200
       /\ reply.status # 200 => StartEvents(p, t) = << >>

RefusedStartChangesNothing ==
  /\ \A p \in PollIds, t \in TeacherIds :
       (StartReply(p, t).status # 200 /\ StartPoll(p, t)) => UNCHANGED vars
  /\ \A p \in StoredPolls :
       (timers'[p] > timers[p] \/ (~Active(p) /\ polls'[p].isActive)) =>
         /\ ~Active(p)
         /\ \E t \in TeacherIds :
              /\ Creator(p, t)
              /\ StartReply(p, t).status = 200
              /\ StartPoll(p, t)

\* C16: the refusals of startPoll in their order, and no effect of a refused call
StartChecked == [](StartPrecedence) /\ [][RefusedStartChangesNothing]_vars

\* an Active poll beside an unknown poll id: for a requester who is not the
\* creator the 403 comes before the 409
StartCheckedWitness == Known(1) /\ Active(1) /\ ~Known(2) /\ ~Creator(1, "t2")

(***************************************************************************)
(* C17.  A successful startPoll leaves the poll Active with timeLeft =     *)
(* duration, no responses, a tally entry with count 0 and no respondents   *)
(* for each option and no other entry, and an empty chat log; it publishes *)
(* pollStarted with the poll as started and the roster; the poll's other   *)
(* fields, the roster, the ejected set, the history, the current poll and  *)
(* all other polls are as before.                                          *)
(***************************************************************************)
Started(p) == timers'[p] > timers[p]

StartEffects(p) ==
  LET before == polls[p]
      after == polls'[p]
  IN /\ after.isActive
     /\ after.timeLeft = before.duration
     /\ DOMAIN after.responses = {}
     /\ DOMAIN after.results = {before.options[k] : k \in 1..Len(before.options)}
     /\ \A o \in DOMAIN after.results :
          after.results[o].count = 0 /\ after.results[o].participants = << >>
     /\ chatMessages' = << >>
     /\ StartEvents(p, before.teacherId) =
          <<Event("pollStarted", "all",
                  [poll |-> after, participants |-> activeParticipants'])>>
     /\ after.question = before.question
     /\ after.options = before.options
     /\ after.duration = before.duration
     /\ after.correctAnswer = before.correctAnswer
     /\ after.teacherId = before.teacherId
     /\ \A q \in StoredPolls \ {p} : polls'[q] = polls[q]
     /\ Len(polls') = Len(polls)
     /\ UNCHANGED <<activeParticipants, kickedOutStudents, pollHistory, currentPoll,
                    sockets, chatIds>>

\* C17: what a successful start sets, clears, publishes and leaves alone
StartEffective == [][\A p \in StoredPolls : Started(p) => StartEffects(p)]_vars

\* a poll just started again after it ended with a response, its responses now
\* empty, with the chat log that held a message cleared, a participant on the
\* roster and another poll in the store
StartWitness ==
  \E p \in StoredPolls :
    /\ Active(p) /\ polls[p].timeLeft = polls[p].duration
    /\ polls[p].summary # Undefined /\ polls[p].summary[1].totalResponses = 1
    /\ DOMAIN polls[p].responses = {}
    /\ chatIds > 0 /\ chatMessages = << >>
    /\ activeParticipants # << >>
    /\ \E q \in StoredPolls : q # p

(***************************************************************************)
(* C18.  For every Ended poll, summary.totalResponses is the number of     *)
(* participant ids with a recorded response, and correctResponses +        *)
(* incorrectResponses = totalResponses.                                    *)
(***************************************************************************)
SummaryTotals ==
  \A p \in StoredPolls :
    Ended(p) =>
      LET summary == polls[p].summary[1]
      IN /\ summary.totalResponses = Cardinality(DOMAIN polls[p].responses)
         /\ summary.correctResponses + summary.incorrectResponses =
              summary.totalResponses

(***************************************************************************)
(* C19.  A successful join of a participant who is not ejected, by the     *)
(* HTTP join or by the socket joinParticipant, leaves the participant on   *)
(* the roster with role student and publishes participantJoined to all     *)
(* with the new roster.                                                    *)
(***************************************************************************)
OnRoster(roster, s, n) ==
  \E k \in 1..Len(roster) : roster[k] = [id |-> s, name |-> n, role |-> "student"]

PublishesJoined(events, roster) ==
  \E e \in 1..Len(events) :
    /\ events[e].name = "participantJoined"
    /\ events[e].to = "all"
    /\ events[e].data.participants = roster

JoinAnnounced(s, n) ==
  /\ (JoinReply(s, n).status = 200 /\ HttpJoin(s, n)) =>
       /\ OnRoster(activeParticipants', s, n)
       /\ PublishesJoined(HttpJoinEvents(s, n), activeParticipants')
  /\ \A i \in 1..Len(sockets) :
       (~JoinParticipantRefused(s) /\ JoinParticipant(i, s, n)) =>
         /\ OnRoster(activeParticipants', s, n)
         /\ PublishesJoined(JoinParticipantEvents(i, s, n), activeParticipants')

\* C19: every successful join puts the participant on the roster and publishes
\* participantJoined with the new roster
JoinsAnnounced == [][\A s \in StudentIds : JoinAnnounced(s, "n")]_vars

(***************************************************************************)
(* C20.  For each activation of a poll the events are: pollStarted (with   *)
(* timeLeft = duration) at the start; one timerUpdate per tick, carrying   *)
(* the poll's timeLeft after the tick, one less than the value before, so  *)
(* duration - 1 down to 0; pollEnded right after the timerUpdate that      *)
(* carries 0, in the same callback, and never otherwise; and               *)
(* responseSubmitted only while the poll is Active, that is after its      *)
(* pollStarted and before its pollEnded.                                   *)
(***************************************************************************)
TimerRunsWhileActive ==
  \A p \in PollIds :
    /\ timers[p] \in {0, 1}
    /\ ~Known(p) => timers[p] = 0
    /\ Known(p) =>
         /\ Active(p) <=> timers[p] = 1
         /\ Active(p) => polls[p].timeLeft \in 1..polls[p].duration
         /\ ~Active(p) =>
              \A s \in Respondents, o \in Selections :
                ResponseEvents(p, s, "n", o) = << >>

StartPublishes(p) ==
  LET events == StartEvents(p, polls[p].teacherId)
  IN /\ Len(events) = 1
     /\ events[1].name = "pollStarted"
     /\ events[1].data.poll = polls'[p]
     /\ events[1].data.poll.timeLeft = polls[p].duration

TickPublishes(p) ==
  LET events == TickEvents(p)
      timeLeft == events[1].data.timeLeft
  IN /\ events[1].name = "timerUpdate"
     /\ timeLeft = polls[p].timeLeft - 1
     /\ timeLeft = polls'[p].timeLeft
     /\ timeLeft \in 0..(polls[p].duration - 1)
     /\ timeLeft > 0 => Len(events) = 1 /\ polls'[p].isActive
     /\ timeLeft = 0 =>
          /\ Len(events) = 2
          /\ events[2].name = "pollEnded"
          /\ events[2].data.poll = polls'[p]
          /\ ~polls'[p].isActive /\ timers'[p] = 0

ResponsePublishedWhileActive(p) ==
  \A s \in StudentIds :
    (s \in DOMAIN polls'[p].responses /\ s \notin DOMAIN polls[p].responses) =>
      /\ Active(p) /\ polls'[p].isActive /\ timers[p] = 1
      /\ polls'[p].timeLeft = polls[p].timeLeft
      /\ LET events == ResponseEvents(p, s, "n", polls'[p].responses[s].selectedOption)
         IN /\ Len(events) = 1
            /\ events[1].name = "responseSubmitted"
            /\ events[1].data.poll = polls'[p]

EventSteps(p) ==
  /\ Started(p) => StartPublishes(p)
  /\ (timers[p] > 0 /\ Tick(p)) => TickPublishes(p)
  /\ (Active(p) /\ polls'[p].timeLeft # polls[p].timeLeft) => Tick(p)
  /\ ResponsePublishedWhileActive(p)

\* C20: pollStarted, timerUpdate from duration - 1 down to 0, pollEnded right after
\* the 0, and responseSubmitted only in between
EventsInOrder ==
  [](TimerRunsWhileActive) /\ [][\A p \in StoredPolls : EventSteps(p)]_vars

\* a second activation under way: a poll that ended once, was started again, has
\* been ticked and has a response
EventsWitness ==
  \E p \in StoredPolls :
    /\ Len(pollHistory) > 0 /\ polls[p].summary # Undefined
    /\ Active(p) /\ polls[p].timeLeft < polls[p].duration
    /\ DOMAIN polls[p].responses # {}

(***************************************************************************)
(* C21. A respondent connection that disconnects takes its participant off *)
(* the roster and publishes participantRemoved with reason 'disconnected'; *)
(* the ejected set, the polls with their responses and tallies, and the    *)
(* history stay as they are, and a join with that id succeeds afterwards   *)
(* unless the id is ejected.  A presenter or unidentified connection that  *)
(* disconnects leaves the roster alone and publishes nothing.              *)
(***************************************************************************)
Respondent(i) == sockets[i].role = "student" /\ sockets[i].studentId # ""

RosterWithout(s) ==
  SelectSeq(activeParticipants, LAMBDA participant : participant.id # s)

JoinSucceeds(s) == JoinReply(s, "n").status = 200 /\ ~JoinParticipantRefused(s)

DisconnectEffects(i) ==
  Disconnect(i) =>
    /\ UNCHANGED <<kickedOutStudents, polls, currentPoll, pollHistory, chatMessages,
                   timers>>
    /\ IF Respondent(i)
       THEN \A s \in StudentIds :
              s = sockets[i].studentId =>
                /\ activeParticipants' = RosterWithout(s)
                /\ ~MapHas(activeParticipants, s)'
                /\ DisconnectEvents(i) =
                     <<Event("participantRemoved", "all",
                             [studentId |-> s, reason |-> "disconnected",
                              participants |-> activeParticipants'])>>
                /\ ~Ejected(s) => JoinSucceeds(s)'
       ELSE /\ UNCHANGED activeParticipants
            /\ DisconnectEvents(i) = << >>

\* C21: a respondent's disconnect removes it from the roster, publishes
\* participantRemoved 'disconnected' and touches nothing else; any other
\* connection's disconnect changes nothing
DisconnectOnlyLeavesRoster ==
  [][\A i \in 1..Len(sockets) : DisconnectEffects(i)]_vars

\* one of two connections of s1 has gone: s1 is off the roster and not ejected,
\* while its answer to a poll is still recorded
DisconnectWitness ==
  /\ \E i \in 1..Len(sockets) : Respondent(i) /\ sockets[i].studentId = "s1"
  /\ ~MapHas(activeParticipants, "s1")
  /\ ~Ejected("s1")
  /\ \E p \in StoredPolls : Answered(p, "s1")
  /\ JoinSucceeds("s1")

(***************************************************************************)
(* C22. pollHistory only grows, by one snapshot for each poll that goes    *)
(* from Active to Ended: the ended poll with finalResults and summary, and *)
(* the roster of that moment.  Entries already there keep their place and  *)
(* their content.  The snapshot is a shallow copy, so it shares responses  *)
(* and results with the poll object until the next start replaces them;    *)
(* the handlers write into these objects only while the poll is Active,    *)
(* when no snapshot shares them.  GET /api/poll/history returns the        *)
(* entries of the asking teacher and no others.                            *)
(***************************************************************************)
HistoryEntries == 1..Len(pollHistory)

\* entry h holds the very responses and results objects of poll p
SharesObjects(h, p) ==
  /\ pollHistory[h].id = p
  /\ \A k \in HistoryEntries : pollHistory[k].id = p => k <= h
  /\ ~Active(p)

EntriesComplete ==
  \A h \in HistoryEntries :
    /\ ~pollHistory[h].isActive
    /\ pollHistory[h].finalResults # Undefined
    /\ pollHistory[h].summary # Undefined
    /\ pollHistory[h].id \in StoredPolls

HistoryGrowsByEndedPolls ==
  /\ Len(pollHistory') \in {Len(pollHistory), Len(pollHistory) + 1}
  /\ SubSeq(pollHistory', 1, Len(pollHistory)) = pollHistory
  /\ \A p \in StoredPolls :
       /\ (Active(p) /\ Ended(p)') =>
            /\ pollHistory' = Append(pollHistory,
                                     [participants |-> activeParticipants] @@ polls'[p])
            /\ polls'[p].finalResults = Some(FinalResults(polls'[p]))
            /\ polls'[p].summary = Some(Summary(polls'[p]))
       /\ (\E h \in HistoryEntries : SharesObjects(h, p)) /\ ~Started(p) =>
            /\ polls'[p].responses = polls[p].responses
            /\ polls'[p].results = polls[p].results
  /\ Len(pollHistory') > Len(pollHistory) =>
       \E p \in StoredPolls : Active(p) /\ Ended(p)'

HistoryOfTeacher ==
  /\ HistoryReply("").status = 400
  /\ \A t \in TeacherIds :
       LET reply == HistoryReply(t)
           own == {h \in HistoryEntries : pollHistory[h].teacherId = t}
       IN /\ reply.status = 200
          /\ reply.total = Cardinality(own)
          /\ Len(reply.history) = Cardinality(own)
          /\ \A k \in 1..Len(reply.history) :
               \E h \in own :
                 /\ Cardinality({j \in own : j <= h}) = k
                 /\ reply.history[k].id = pollHistory[h].id
                 /\ reply.history[k].results = pollHistory[h].finalResults[1]
                 /\ reply.history[k].summary = pollHistory[h].summary

\* C22: the history is append-only, one complete snapshot per ended activation,
\* and a teacher is shown exactly their own entries
HistoryAppendOnly ==
  [](EntriesComplete /\ HistoryOfTeacher) /\ [][HistoryGrowsByEndedPolls]_vars

\* the first poll was archived with an answer and a respondent on the roster,
\* and is Active again with fresh responses and another roster; the other
\* teacher, who has a poll too, is shown nothing
HistoryWitness ==
  /\ Len(pollHistory) = 1
  /\ pollHistory[1].id = 1
  /\ pollHistory[1].teacherId = "t1"
  /\ DOMAIN pollHistory[1].responses = {"s1"}
  /\ pollHistory[1].participants # activeParticipants
  /\ pollHistory[1].participants # << >>
  /\ Active(1)
  /\ polls[1].responses # pollHistory[1].responses
  /\ Len(polls) = 2
  /\ polls[2].teacherId = "t2"
  /\ HistoryReply("t1").total = 1
  /\ HistoryReply("t2").total = 0

(***************************************************************************)
(* C23. A poll has a running countdown timer exactly while it is Active,   *)
(* and never two.  Hence timeLeft of an Active poll changes only by the    *)
(* runs of that timer, by 1 each, and endPoll runs once for each           *)
(* activation: on the run that takes timeLeft from 1 to 0, which archives  *)
(* the poll and stops the timer, and which does come.                      *)
(***************************************************************************)
OneTimerWhileActive ==
  \A p \in PollIds :
    /\ timers[p] \in {0, 1}
    /\ timers[p] = 1 <=> (PollExists(p) /\ Active(p))

\* the number of times endPoll has archived poll p
Archived(p) == Cardinality({h \in 1..Len(pollHistory) : pollHistory[h].id = p})

Countdown(p) ==
  /\ polls'[p].timeLeft # polls[p].timeLeft /\ Active(p) =>
       /\ Tick(p)
       /\ polls'[p].timeLeft = polls[p].timeLeft - 1
  /\ Tick(p) /\ timers[p] > 0 =>
       /\ polls'[p].timeLeft = polls[p].timeLeft - 1
       /\ Active(p)' <=> polls'[p].timeLeft > 0
  /\ Archived(p)' = Archived(p) + (IF Active(p) /\ ~Active(p)' THEN 1 ELSE 0)
  /\ Active(p) /\ ~Active(p)' =>
       /\ polls[p].timeLeft = 1
       /\ timers[p] = 1 /\ timers'[p] = 0
  /\ Started(p) => ~Active(p) /\ Active(p)' /\ Archived(p)' = Archived(p)

EveryActivationEnds ==
  \A p \in PollIds, n \in 0..MaxStarts :
    (PollExists(p) /\ Active(p) /\ Archived(p) = n)
      ~> (PollExists(p) /\ Ended(p) /\ Archived(p) = n + 1)

\* C23: one timer per Active poll and none otherwise, timeLeft goes down by 1
\* per tick, and each activation is ended and archived once
OneCountdownPerActivation ==
  /\ [](OneTimerWhileActive)
  /\ [][\A p \in StoredPolls : Countdown(p)]_vars
  /\ EveryActivationEnds

\* the first poll, archived once with an answer, is in its second activation
\* with its one timer half way down, next to a poll that was never started
CountdownWitness ==
  /\ Len(polls) = 2
  /\ Archived(1) = 1
  /\ DOMAIN pollHistory[1].responses = {"s1"}
  /\ Active(1) /\ timers[1] = 1
  /\ polls[1].timeLeft = 5
  /\ Draft(2) /\ timers[2] = 0

(***************************************************************************)
(* C24. No id is on the roster and in the ejected set at once: a kick      *)
(* takes the id off the roster as it ejects it, both joins refuse an       *)
(* ejected id, and a disconnect only removes.                              *)
(***************************************************************************)
RosterIds == {activeParticipants[k].id : k \in 1..Len(activeParticipants)}

RosterDisjointFromEjected == RosterIds \cap kickedOutStudents = {}

RosterSteps ==
  /\ \A s \in kickedOutStudents' \ kickedOutStudents : s \notin RosterIds'
  /\ \A s \in RosterIds' \ RosterIds : s \notin kickedOutStudents'
  /\ kickedOutStudents \subseteq kickedOutStudents'

\* C24: the roster and the ejected set have no id in common
RosterExcludesEjected == [](RosterDisjointFromEjected) /\ [][RosterSteps]_vars

\* s1 was kicked while on two connections, one of which is still open as a
\* student's, and s2 is on the roster
RosterWitness ==
  /\ kickedOutStudents = {"s1"}
  /\ RosterIds = {"s2"}
  /\ \E i \in 1..Len(sockets) : Respondent(i) /\ sockets[i].studentId = "s1"

(***************************************************************************)
(* C25. src/api/index.js and src/server.js, given the same commands over   *)
(* the same time, answer alike and hold the same polls in the same states  *)
(* with the same responses, tallies and history; a poll started through    *)
(* src/api/index.js is Ended and archived when its time is up.             *)
(***************************************************************************)
PollState(poll) ==
  IF poll.isActive THEN "Active"
  ELSE IF poll.summary # Undefined THEN "Ended"
  ELSE "Draft"

SameReplies ==
  /\ \A r \in PlainCreateRequests :
       CreateReply(r.question, r.options, r.teacherId, r.teacherName).status
         = ApiCreateReply(r.question, r.options, r.teacherId, r.teacherName).status
  /\ \A p \in PollIds, t \in TeacherIds :
       StartReply(p, t).status = ApiStartReply(p, t).status
  /\ \A p \in PollIds, s \in StudentIds, o \in {A, Z} :
       ResponseReply(p, s, o).status = ApiResponseReply(p, s, o).status
  /\ \A s \in StudentIds : JoinReply(s, "n").status = ApiJoinReply(s, "n").status

SamePolls ==
  /\ Len(api.polls) = Len(polls)
  /\ \A p \in 1..Len(polls) :
       p <= Len(api.polls) =>
         /\ PollState(api.polls[p]) = PollState(polls[p])
         /\ api.polls[p].responses = polls[p].responses
         /\ api.polls[p].results = polls[p].results
  /\ api.pollHistory = pollHistory

\* C25: the two entry points agree on replies, poll states, responses,
\* tallies and history after the same commands and the same elapsed time
EntryPointsAgree == SameReplies /\ SamePolls

=============================================================================
